---- MODULE Spec2Model ----
(***************************************************************************)
(* device_monitor: the event-scan-and-escalation pipeline.                 *)
(*   src/src/llm_analyzer.py  preprocess_logs, analyze_logs_with_llm       *)
(*   src/src/monitor.py       analyze_event_logs, run_monitor              *)
(*   src/src/db_manager.py    start/end_scan_session, store_events         *)
(*                                                                         *)
(* Text is modelled as a sequence of characters over a small alphabet.     *)
(* The Korean literals of the source are written as ASCII tokens; the      *)
(* literal each token stands for is given where the token is defined.      *)
(***************************************************************************)
EXTENDS Integers, Sequences, FiniteSets, TLC

\* ------------------------------------------------------------------ bounds
\* longest model response text (characters)
MaxResp == 2
\* longest list of detail lines handed to analyze_logs_with_llm directly
MaxLines == 2
\* longest event log read by one run of run_monitor (besides the burst)
MaxLog == 2
\* largest check_threshold a configuration file sets
MaxThreshold == 2
\* most devices one hardware collaborator finds
MaxDevices == 1
\* longest event log, largest batch of one read and largest
\* max_events_to_read of analyze_event_logs called directly
MaxScanLog == 4
MaxBatch == 2
MaxRecords == 3
\* most rows of one table the persistence operations, called directly, write
MaxRows == 2
\* most lines of one (source, ID) group handed to analyze_logs_with_llm
MaxGroup == 7

\* ------------------------------------------------------- program constants
\* llm_config.get('check_threshold', 5)
DefaultThreshold == 5
\* llm_config.get('max_log_details_for_llm', 20)
DefaultMaxLogs == 20
\* evt_conf.get('max_events_to_read', 1000)
DefaultMaxEvents == 1000
\* event.EventID & 0xFFFF keeps the raw ID modulo 2^16
EventIdModulus == 65536
\* if len(logs) > 5: logs[:3] + logs[-2:]
GroupLimit == 5
GroupHead == 3
GroupTail == 2

\* -------------------------------------------------------------------- text
\* "비정상 패턴 의심됨" (the marker of a positive verdict), as one character
MarkAbnormal == "ABNORMAL_SUSPECTED"
\* "정상 범위 추정" (the marker of a negative verdict), as one character
MarkNormal == "NORMAL_PRESUMED"
\* ": " between marker and response
Colon == ": "

\* the characters a model response is made of: a lower-case letter, the same
\* letter in upper case, another lower-case letter, and the positive marker
RespAlphabet == {"a", "A", "z", MarkAbnormal}

\* str.lower() on one character
LowerChar(c) == IF c = "A" THEN "a" ELSE c

\* str.lower()
Lower(s) == [i \in 1..Len(s) |-> LowerChar(s[i])]

\* needle in hay (Python substring test)
Contains(needle, hay) ==
    \E i \in 0..(Len(hay) - Len(needle)) :
        SubSeq(hay, i + 1, i + Len(needle)) = needle

\* the fixed result strings of analyze_logs_with_llm
\* "API 키 없음"
S_NoKey == <<"NO_API_KEY">>
\* "LLM 설정 오류"
S_ConfigError == <<"LLM_CONFIG_ERROR">>
\* "분석할 로그 내용 없음"
S_NoLogs == <<"NO_LOG_CONTENT">>
\* "LLM 응답 형식 오류"
S_FormatError == <<"LLM_RESPONSE_FORMAT_ERROR">>
\* "LLM API 시간 초과"
S_Timeout == <<"LLM_API_TIMEOUT">>
\* "LLM API 연결 오류"
S_ConnError == <<"LLM_API_CONNECTION_ERROR">>
\* "LLM API 요청 오류: <class name>"
S_RequestError(name) == <<"LLM_API_REQUEST_ERROR", Colon, name>>
\* "LLM 응답 파싱 오류"
S_ParseError == <<"LLM_RESPONSE_PARSE_ERROR">>
\* "LLM 분석 중 알 수 없는 오류"
S_Unknown == <<"LLM_UNKNOWN_ERROR">>
\* "LLM 분석 미수행" (run_monitor's initial llm_result)
S_NotPerformed == <<"LLM_NOT_PERFORMED">>

\* ------------------------------------------------------------ detail lines
\* A detail line as preprocess_logs sees it:
\*   kind "ok"       the line carries a time field holding a valid timestamp ts
\*   kind "badtime"  the time field matches the pattern but is no valid timestamp
\*   kind "notime"   the line carries no time field
\*   kind "nonstr"   the element is not a string (re.search raises TypeError)
\* source = "" / id = -1: the line carries no source / no ID field.
\* msg: the message text that follows the three fields.
Line(kind, ts, source, id, msg) ==
    [kind |-> kind, ts |-> ts, source |-> source, id |-> id, msg |-> msg]

\* "알 수 없음" (the label of a missing source or ID field)
UnknownSource == "UNKNOWN"
UnknownId == -1
\* "파싱 실패" (the source label of a line whose parsing raised)
ParseFailedSource == "PARSE_FAILED"

\* log_details[:max_logs]
PySlice(s, n) ==
    IF n >= 0
        THEN SubSeq(s, 1, IF n < Len(s) THEN n ELSE Len(s))
        ELSE SubSeq(s, 1, IF Len(s) + n > 0 THEN Len(s) + n ELSE 0)

\* the body of the loop over recent_logs: the entries one line appends
ParseLine(log) ==
    CASE log.kind = "ok" ->
            << [time |-> log.ts, timestamp |-> log.ts,
                source |-> IF log.source = "" THEN UnknownSource ELSE log.source,
                event_id |-> IF log.id = -1 THEN UnknownId ELSE log.id,
                full_log |-> log] >>
      [] log.kind = "notime" -> << >>
      [] OTHER ->
            << [time |-> 0, timestamp |-> 0, source |-> ParseFailedSource,
                event_id |-> 0, full_log |-> log] >>

RECURSIVE ParseLines(_)
ParseLines(logs) ==
    IF logs = << >> THEN << >>
    ELSE ParseLine(Head(logs)) \o ParseLines(Tail(logs))

\* sorted(parsed_logs, key=lambda x: x['timestamp']): a stable sort
RECURSIVE InsertSorted(_, _)
InsertSorted(e, s) ==
    IF s = << >> THEN << e >>
    ELSE IF e.timestamp < Head(s).timestamp THEN << e >> \o s
    ELSE << Head(s) >> \o InsertSorted(e, Tail(s))

RECURSIVE SortByTimestamp(_)
SortByTimestamp(s) ==
    IF s = << >> THEN << >>
    ELSE InsertSorted(s[Len(s)], SortByTimestamp(SubSeq(s, 1, Len(s) - 1)))

\* key = f"{log['source']} (ID: {log['event_id']})"
GroupKey(e) == << e.source, e.event_id >>

SelectKey(s, k) == SelectSeq(s, LAMBDA e : GroupKey(e) = k)

\* the keys of grouped_logs in insertion order
RECURSIVE GroupKeys(_)
GroupKeys(s) ==
    IF s = << >> THEN << >>
    ELSE LET rest == GroupKeys(SubSeq(s, 1, Len(s) - 1))
             k == GroupKey(s[Len(s)])
         IN  IF \E i \in 1..Len(rest) : rest[i] = k THEN rest ELSE Append(rest, k)

\* display_logs keeping the first entries only
DisplayLogsHeadOnly(logs) ==
    IF Len(logs) > GroupLimit THEN SubSeq(logs, 1, GroupLimit) ELSE logs

\* display_logs of one group
DisplayLogs(logs) ==
    IF Len(logs) > GroupLimit
        THEN SubSeq(logs, 1, GroupHead) \o SubSeq(logs, Len(logs) - GroupTail + 1, Len(logs))
        ELSE logs

\* one group of the digest: header, truncation note, displayed entries
DigestGroup(sorted, k) ==
    LET logs == SelectKey(sorted, k)
    IN  [key |-> k, size |-> Len(logs), note |-> Len(logs) > GroupLimit,
         shown |-> DisplayLogs(logs)]

\* preprocess_logs(log_details, max_logs)
\*   kind "nodata": "분석할 관련 이벤트 로그 내용이 없습니다."
\*   kind "raise":  sorted_logs[0] on an empty list raises IndexError
\*   kind "digest": the digest text, by its parts
PreprocessLogs(log_details, max_logs) ==
    LET none == [kind |-> "nodata", total |-> 0, first |-> 0, last |-> 0, groups |-> << >>]
        sorted == SortByTimestamp(ParseLines(PySlice(log_details, max_logs)))
        keys == GroupKeys(sorted)
    IN  IF log_details = << >> THEN none
        ELSE IF sorted = << >> THEN [none EXCEPT !.kind = "raise"]
        ELSE [kind |-> "digest", total |-> Len(sorted),
              first |-> sorted[1].time, last |-> sorted[Len(sorted)].time,
              groups |-> [i \in 1..Len(keys) |-> DigestGroup(sorted, keys[i])]]

\* ----------------------------------------------------------- configuration
\* None (a missing environment variable, a missing session id)
NoneValue == "<None>"

\* Python truthiness of a string-or-None value
Falsy(v) == v \in {NoneValue, ""}

\* The configuration dict, by the keys the pipeline reads. has_llm = FALSE: the
\* file has no 'llm' section, and config.get('llm', {}) is the empty dict.
Config(has_llm, enabled, threshold, api_url, model, max_logs, keywords) ==
    [has_llm |-> has_llm, enabled |-> enabled, check_threshold |-> threshold,
     api_url |-> api_url, model |-> model, max_logs |-> max_logs,
     abnormal_keywords |-> keywords]

\* llm_config.get('enabled', True)
LlmEnabled(config) == IF config.has_llm THEN config.enabled ELSE TRUE
\* llm_config.get('check_threshold', 5)
LlmThreshold(config) == IF config.has_llm THEN config.check_threshold ELSE DefaultThreshold
\* llm_config.get('api_url'), llm_config.get('model'): TRUE when set
LlmApiUrl(config) == config.has_llm /\ config.api_url
LlmModel(config) == config.has_llm /\ config.model
\* llm_config.get('max_log_details_for_llm', 20)
LlmMaxLogs(config) == IF config.has_llm THEN config.max_logs ELSE DefaultMaxLogs
\* llm_config.get('abnormal_keywords', [])
LlmKeywords(config) == IF config.has_llm THEN config.abnormal_keywords ELSE << >>

\* ---------------------------------------------------------- the model call
\* What the network and the model answer to the one requests.post:
\*   timeout, connection, redirects     requests.post raises that exception
\*   http_error                         raise_for_status raises HTTPError
\*   not_json_requests                  response.json() raises
\*                                      requests.exceptions.JSONDecodeError
\*                                      (requests 2.27 and later)
\*   not_json_stdlib                    response.json() raises
\*                                      json.JSONDecodeError (earlier requests)
\*   json_nondict                       the body is JSON but no object
\*   choices_missing, choices_empty     no "choices", or an empty list
\*   choices_malformed                  "choices" is a non-empty object
\*   choice_nondict                     choices[0] is no object
\*   message_missing                    choices[0] has no (or an empty) "message"
\*   message_malformed                  "message" is a non-empty string
\*   content_missing                    "message" has no (or an empty) "content"
\*   content_nonstring                  "content" is a number
\*   ok                                 "content" is the text `text`
Net(kind, text) == [kind |-> kind, text |-> text]

\* the exception classes the try block can raise, with their base classes
Bases(cls) ==
    CASE cls = "Timeout" -> {"Timeout", "RequestException", "Exception"}
      [] cls = "ConnectionError" -> {"ConnectionError", "RequestException", "Exception"}
      [] cls = "TooManyRedirects" -> {"TooManyRedirects", "RequestException", "Exception"}
      [] cls = "HTTPError" -> {"HTTPError", "RequestException", "Exception"}
      [] cls = "requests.JSONDecodeError" ->
            {"requests.JSONDecodeError", "InvalidJSONError", "RequestException",
             "JSONDecodeError", "ValueError", "Exception"}
      [] cls = "JSONDecodeError" -> {"JSONDecodeError", "ValueError", "Exception"}
      [] OTHER -> {cls, "Exception"}

\* e.__class__.__name__
ClassName(cls) == IF cls = "requests.JSONDecodeError" THEN "JSONDecodeError" ELSE cls

Returned(v) == [raised |-> FALSE, exc |-> "", value |-> v]
Raised(cls) == [raised |-> TRUE, exc |-> cls, value |-> << >>]

\* any(keyword in llm_response_content.lower() for keyword in abnormal_keywords)
IsAbnormal(content, abnormal_keywords) ==
    \E i \in 1..Len(abnormal_keywords) : Contains(abnormal_keywords[i], Lower(content))

\* the classification and the two returns that follow it
Classify(content, abnormal_keywords) ==
    IF IsAbnormal(content, abnormal_keywords)
        THEN << MarkAbnormal, Colon >> \o content
        ELSE << MarkNormal, Colon >> \o content

\* the body of the try block: post, raise_for_status, json(), field access
TryBody(net, abnormal_keywords) ==
    CASE net.kind = "timeout" -> Raised("Timeout")
      [] net.kind = "connection" -> Raised("ConnectionError")
      [] net.kind = "redirects" -> Raised("TooManyRedirects")
      [] net.kind = "http_error" -> Raised("HTTPError")
      [] net.kind = "not_json_requests" -> Raised("requests.JSONDecodeError")
      [] net.kind = "not_json_stdlib" -> Raised("JSONDecodeError")
      [] net.kind = "json_nondict" -> Raised("AttributeError")
      [] net.kind \in {"choices_missing", "choices_empty"} -> Returned(S_FormatError)
      [] net.kind = "choices_malformed" -> Raised("KeyError")
      [] net.kind = "choice_nondict" -> Raised("AttributeError")
      [] net.kind = "message_missing" -> Returned(S_FormatError)
      [] net.kind = "message_malformed" -> Raised("AttributeError")
      [] net.kind = "content_missing" -> Returned(S_FormatError)
      [] net.kind = "content_nonstring" -> Raised("TypeError")
      [] OTHER ->
            IF net.text = << >> THEN Returned(S_FormatError)
            ELSE Returned(Classify(net.text, abnormal_keywords))

\* the except clauses, in the order they are written
ExceptClauses(cls) ==
    IF "Timeout" \in Bases(cls) THEN S_Timeout
    ELSE IF "ConnectionError" \in Bases(cls) THEN S_ConnError
    ELSE IF "RequestException" \in Bases(cls) THEN S_RequestError(ClassName(cls))
    ELSE IF "JSONDecodeError" \in Bases(cls) THEN S_ParseError
    ELSE S_Unknown

\* the outcome of one call of analyze_logs_with_llm: the string it returns or
\* the exception it raises, and the number of requests it sent
Outcome(raised, exc, result, posts) ==
    [raised |-> raised, exc |-> exc, result |-> result, posts |-> posts]

\* analyze_logs_with_llm sending the request again after a failure
AnalyzeLogsWithLlmRetry(log_details, config, api_key, net) ==
    LET log_summary == PreprocessLogs(log_details, LlmMaxLogs(config))
        body == TryBody(net, LlmKeywords(config))
    IN  IF Falsy(api_key) THEN Outcome(FALSE, "", S_NoKey, 0)
        ELSE IF ~LlmApiUrl(config) \/ ~LlmModel(config)
            THEN Outcome(FALSE, "", S_ConfigError, 0)
        ELSE IF log_summary.kind = "raise" THEN Outcome(TRUE, "IndexError", << >>, 0)
        ELSE IF log_summary.kind = "nodata" THEN Outcome(FALSE, "", S_NoLogs, 0)
        ELSE IF body.raised THEN Outcome(FALSE, "", ExceptClauses(body.exc), 2)
        ELSE Outcome(FALSE, "", body.value, 1)

\* analyze_logs_with_llm testing the endpoint URL but not the model identifier
AnalyzeLogsWithLlmNoModelTest(log_details, config, api_key, net) ==
    LET log_summary == PreprocessLogs(log_details, LlmMaxLogs(config))
        body == TryBody(net, LlmKeywords(config))
    IN  IF Falsy(api_key) THEN Outcome(FALSE, "", S_NoKey, 0)
        ELSE IF ~LlmApiUrl(config) THEN Outcome(FALSE, "", S_ConfigError, 0)
        ELSE IF log_summary.kind = "raise" THEN Outcome(TRUE, "IndexError", << >>, 0)
        ELSE IF log_summary.kind = "nodata" THEN Outcome(FALSE, "", S_NoLogs, 0)
        ELSE IF body.raised THEN Outcome(FALSE, "", ExceptClauses(body.exc), 1)
        ELSE Outcome(FALSE, "", body.value, 1)

\* analyze_logs_with_llm(log_details, config, api_key), the network answering net
AnalyzeLogsWithLlm(log_details, config, api_key, net) ==
    LET log_summary == PreprocessLogs(log_details, LlmMaxLogs(config))
        body == TryBody(net, LlmKeywords(config))
    IN  IF Falsy(api_key) THEN Outcome(FALSE, "", S_NoKey, 0)
        ELSE IF ~LlmApiUrl(config) \/ ~LlmModel(config)
            THEN Outcome(FALSE, "", S_ConfigError, 0)
        ELSE IF log_summary.kind = "raise" THEN Outcome(TRUE, "IndexError", << >>, 0)
        ELSE IF log_summary.kind = "nodata" THEN Outcome(FALSE, "", S_NoLogs, 0)
        ELSE IF body.raised THEN Outcome(FALSE, "", ExceptClauses(body.exc), 1)
        ELSE Outcome(FALSE, "", body.value, 1)

\* ------------------------------------------------------------ the log scan
\* One record of the event log. fmt says what formatting it does:
\*   "ok"         SafeFormatMessage and TimeGenerated.Format both succeed
\*   "msg_fail"   SafeFormatMessage raises
\*   "time_fail"  TimeGenerated.Format raises
Event(source, raw_id, time, fmt) ==
    [source |-> source, raw_id |-> raw_id, time |-> time, fmt |-> fmt]

\* "포맷 오류: <cause>" (the message of a record whose formatting raised)
FormatErrorMsg == "FORMAT_ERROR"
\* the text SafeFormatMessage returns
FormattedMsg == "message"

\* The event-log side of one scan:
\*   windows    is_windows and win32evtlog loaded
\*   open_ok    OpenEventLog succeeds
\*   log        the records, newest first
\*   batch      the number of records one ReadEventLog returns
\*   fault_at   the read (1, 2, ...) that raises win32evtlog.error; 0: none
\*   fault_18   that error is ERROR_NO_MORE_ITEMS
\*   close_ok   CloseEventLog succeeds (its exception is caught and logged)
ScanEnv(windows, open_ok, log, batch, fault_at, fault_18, close_ok) ==
    [windows |-> windows, open_ok |-> open_ok, log |-> log, batch |-> batch,
     fault_at |-> fault_at, fault_18 |-> fault_18, close_ok |-> close_ok]

\* config['event_log']: target_sources, target_event_ids, max_events_to_read
EvtConf(sources, ids, max_events) ==
    [target_sources |-> sources, target_event_ids |-> ids, max_events |-> max_events]

\* match_found testing the raw event ID, flags in the upper bits included
MatchFoundRawId(event, evt_conf) ==
    \/ evt_conf.target_sources # {} /\ event.source \in evt_conf.target_sources
    \/ evt_conf.target_event_ids # {} /\ event.raw_id \in evt_conf.target_event_ids

\* match_found for one record
MatchFound(event, evt_conf) ==
    LET event_id == event.raw_id % EventIdModulus
    IN  \/ evt_conf.target_sources # {} /\ event.source \in evt_conf.target_sources
        \/ evt_conf.target_event_ids # {} /\ event_id \in evt_conf.target_event_ids

\* the detail line and the structured record of one matching record
DetailOf(event, msg) ==
    Line("ok", event.time, event.source, event.raw_id % EventIdModulus, msg)

ObjectOf(event, msg) ==
    [timestamp |-> event.time, source |-> event.source,
     event_id |-> event.raw_id % EventIdModulus, message |-> msg,
     llm_analysis |-> << >>, abnormal |-> FALSE]

\* what the scan has accumulated: event_count, matched_event_details,
\* matched_events, total_read, the number of ReadEventLog calls made, and the
\* exception that left the loop ("" if none)
ScanAcc(count, details, objects, total_read, reads, raised) ==
    [count |-> count, details |-> details, objects |-> objects,
     total_read |-> total_read, reads |-> reads, raised |-> raised]

\* the for loop over the first n records of one batch
RECURSIVE ProcessBatch(_, _, _, _)
ProcessBatch(events, n, evt_conf, acc) ==
    IF n = 0 \/ acc.raised # "" THEN acc
    ELSE LET event == Head(events)
             next ==
                IF ~MatchFound(event, evt_conf) THEN acc
                ELSE IF event.fmt = "time_fail"
                    \* Format raises in the try block and again in its handler
                    THEN [acc EXCEPT !.count = @ + 1, !.raised = "Exception"]
                ELSE LET msg == IF event.fmt = "ok" THEN FormattedMsg ELSE FormatErrorMsg
                     IN  [acc EXCEPT !.count = @ + 1,
                                     !.details = Append(@, DetailOf(event, msg)),
                                     !.objects = Append(@, ObjectOf(event, msg))]
         IN  ProcessBatch(Tail(events), n - 1, evt_conf, next)

\* the while loop examining every record of a batch, also those beyond
\* max_events_to_read
RECURSIVE ReadLoopWholeBatch(_, _, _, _, _)
ReadLoopWholeBatch(rest, read, env, evt_conf, acc) ==
    IF acc.total_read >= evt_conf.max_events THEN acc
    ELSE IF env.fault_at = read
        THEN IF env.fault_18 THEN [acc EXCEPT !.reads = read]
             ELSE [acc EXCEPT !.reads = read, !.raised = "win32evtlog.error"]
    ELSE IF rest = << >> THEN [acc EXCEPT !.reads = read]
    ELSE LET batch_size == IF env.batch < Len(rest) THEN env.batch ELSE Len(rest)
             done == ProcessBatch(SubSeq(rest, 1, batch_size), batch_size, evt_conf,
                                  [acc EXCEPT !.reads = read])
         IN  IF done.raised # "" THEN done
             ELSE ReadLoopWholeBatch(SubSeq(rest, batch_size + 1, Len(rest)), read + 1,
                                     env, evt_conf, [done EXCEPT !.total_read = @ + batch_size])

\* the while loop: read number `read`, the log's unread records being `rest`
RECURSIVE ReadLoop(_, _, _, _, _)
ReadLoop(rest, read, env, evt_conf, acc) ==
    IF acc.total_read >= evt_conf.max_events THEN acc
    ELSE IF env.fault_at = read
        THEN IF env.fault_18 THEN [acc EXCEPT !.reads = read]
             ELSE [acc EXCEPT !.reads = read, !.raised = "win32evtlog.error"]
    ELSE IF rest = << >> THEN [acc EXCEPT !.reads = read]
    ELSE LET batch_size == IF env.batch < Len(rest) THEN env.batch ELSE Len(rest)
             left == evt_conf.max_events - acc.total_read
             n == IF batch_size < left THEN batch_size ELSE left
             done == ProcessBatch(SubSeq(rest, 1, batch_size), n, evt_conf,
                                  [acc EXCEPT !.reads = read])
         IN  IF done.raised # "" THEN done
             ELSE ReadLoop(SubSeq(rest, batch_size + 1, Len(rest)), read + 1, env,
                           evt_conf, [done EXCEPT !.total_read = @ + n])

\* the result of analyze_event_logs: the returned triple, what happened to
\* the log handle, and the return statement taken:
\*   "no_windows"     not Windows, or pywin32 missing
\*   "no_criteria"    both criteria lists empty
\*   "access_error"   except win32evtlog.error (open or read failed)
\*   "unexpected"     except Exception
\*   "scanned"        the return after the read loop
\* with total_read and the number of ReadEventLog calls at that point
ScanResult(count, details, objects, opened, closes, exit, total_read, reads) ==
    [count |-> count, details |-> details, objects |-> objects,
     opened |-> opened, closes |-> closes, exit |-> exit,
     total_read |-> total_read, reads |-> reads]

\* analyze_event_logs keeping its count when an exception ends the scan
AnalyzeEventLogsKeepCount(evt_conf, env) ==
    LET acc == ReadLoop(env.log, 1, env, evt_conf, ScanAcc(0, << >>, << >>, 0, 0, ""))
    IN  IF ~env.windows THEN ScanResult(0, << >>, << >>, FALSE, 0, "no_windows", 0, 0)
        ELSE IF evt_conf.target_sources = {} /\ evt_conf.target_event_ids = {}
            THEN ScanResult(0, << >>, << >>, FALSE, 0, "no_criteria", 0, 0)
        ELSE IF ~env.open_ok
            THEN ScanResult(0, << >>, << >>, FALSE, 0, "access_error", 0, 0)
        ELSE IF acc.raised # ""
            THEN ScanResult(acc.count, << >>, << >>, TRUE, 1, "unexpected",
                            acc.total_read, acc.reads)
        ELSE ScanResult(acc.count, acc.details, acc.objects, TRUE, 1, "scanned",
                        acc.total_read, acc.reads)

\* analyze_event_logs returning what it had found when a read failed
AnalyzeEventLogsKeepPartial(evt_conf, env) ==
    LET acc == ReadLoop(env.log, 1, env, evt_conf, ScanAcc(0, << >>, << >>, 0, 0, ""))
    IN  IF ~env.windows THEN ScanResult(0, << >>, << >>, FALSE, 0, "no_windows", 0, 0)
        ELSE IF evt_conf.target_sources = {} /\ evt_conf.target_event_ids = {}
            THEN ScanResult(0, << >>, << >>, FALSE, 0, "no_criteria", 0, 0)
        ELSE IF ~env.open_ok
            THEN ScanResult(0, << >>, << >>, FALSE, 0, "access_error", 0, 0)
        ELSE IF acc.raised = "win32evtlog.error"
            THEN ScanResult(acc.count, acc.details, acc.objects, TRUE, 1, "access_error",
                            acc.total_read, acc.reads)
        ELSE IF acc.raised # ""
            THEN ScanResult(0, << >>, << >>, TRUE, 1, "unexpected", acc.total_read, acc.reads)
        ELSE ScanResult(acc.count, acc.details, acc.objects, TRUE, 1, "scanned",
                        acc.total_read, acc.reads)

\* analyze_event_logs closing the handle only on its normal return
AnalyzeEventLogsLeakOnError(evt_conf, env) ==
    LET acc == ReadLoop(env.log, 1, env, evt_conf, ScanAcc(0, << >>, << >>, 0, 0, ""))
    IN  IF ~env.windows THEN ScanResult(0, << >>, << >>, FALSE, 0, "no_windows", 0, 0)
        ELSE IF evt_conf.target_sources = {} /\ evt_conf.target_event_ids = {}
            THEN ScanResult(0, << >>, << >>, FALSE, 0, "no_criteria", 0, 0)
        ELSE IF ~env.open_ok
            THEN ScanResult(0, << >>, << >>, FALSE, 0, "access_error", 0, 0)
        ELSE IF acc.raised = "win32evtlog.error"
            THEN ScanResult(0, << >>, << >>, TRUE, 0, "access_error", acc.total_read, acc.reads)
        ELSE IF acc.raised # ""
            THEN ScanResult(0, << >>, << >>, TRUE, 0, "unexpected", acc.total_read, acc.reads)
        ELSE ScanResult(acc.count, acc.details, acc.objects, TRUE, 1, "scanned",
                        acc.total_read, acc.reads)

\* analyze_event_logs(config, logger)
AnalyzeEventLogs(evt_conf, env) ==
    LET acc == ReadLoop(env.log, 1, env, evt_conf, ScanAcc(0, << >>, << >>, 0, 0, ""))
    IN  IF ~env.windows THEN ScanResult(0, << >>, << >>, FALSE, 0, "no_windows", 0, 0)
        ELSE IF evt_conf.target_sources = {} /\ evt_conf.target_event_ids = {}
            THEN ScanResult(0, << >>, << >>, FALSE, 0, "no_criteria", 0, 0)
        ELSE IF ~env.open_ok
            THEN ScanResult(0, << >>, << >>, FALSE, 0, "access_error", 0, 0)
        ELSE IF acc.raised = "win32evtlog.error"
            THEN ScanResult(0, << >>, << >>, TRUE, 1, "access_error", acc.total_read, acc.reads)
        ELSE IF acc.raised # ""
            THEN ScanResult(0, << >>, << >>, TRUE, 1, "unexpected", acc.total_read, acc.reads)
        ELSE ScanResult(acc.count, acc.details, acc.objects, TRUE, 1, "scanned",
                        acc.total_read, acc.reads)

\* the parts of the session summary text
\* f"이벤트 발견: {event_count}개, 장치 발견: {hw_devices_found}개"
SummaryBase(events, devices) == [events |-> events, devices |-> devices, notes |-> << >>]
AddNote(summary, note) == [summary EXCEPT !.notes = Append(@, note)]
\* ", 비정상 패턴 감지됨"
SumAbnormal == "ABNORMAL_PATTERN_DETECTED"
\* ", LLM 분석 실패 (API 키 없음)"
SumNoKey == "LLM_FAILED_NO_API_KEY"
\* ", LLM 분석 비활성화됨"
SumDisabled == "LLM_DISABLED"
\* ", LLM 분석 임계값 미달"
SumBelowThreshold == "LLM_BELOW_THRESHOLD"


\* ------------------------------------------------------------- persistence
\* session_id is None (start_scan_session could not create the session)
NoSession == 0

\* The store: the scan_sessions row of this run ("none", "open": start_time
\* only, "closed": end_time, counters and summary written), the hardware_info
\* rows and the events rows.
Db(session, counters, summary, hw_rows, events) ==
    [session |-> session, counters |-> counters, summary |-> summary,
     hw_rows |-> hw_rows, events |-> events]

\* start_scan_session(): the store after it, db_ok telling whether the
\* connection and the INSERT succeed
StartScanSession(db, db_ok) == IF db_ok THEN [db EXCEPT !.session = "open"] ELSE db

\* end_scan_session(session_id, events_found, hw_devices_found, llm, summary)
EndScanSession(db, session_id, counters, summary, db_ok) ==
    IF session_id = NoSession \/ ~db_ok THEN db
    ELSE [db EXCEPT !.session = "closed", !.counters = counters, !.summary = summary]

\* store_hardware_info(session_id, hw_type, devices), devices being n rows;
\* the session id is not read
StoreHardwareInfo(db, session_id, n, db_ok) ==
    IF n = 0 \/ ~db_ok THEN db ELSE [db EXCEPT !.hw_rows = @ + n]

\* store_events(session_id, events); the session id is not read
StoreEvents(db, session_id, events, db_ok) ==
    IF events = << >> \/ ~db_ok THEN db ELSE [db EXCEPT !.events = @ \o events]

\* what the operations return: the new session id or None, True/False as
\* 1/0, and the number of rows written
StartScanSessionRet(db_ok) == IF db_ok THEN 1 ELSE NoSession
EndScanSessionRet(session_id, db_ok) == IF session_id = NoSession \/ ~db_ok THEN 0 ELSE 1
StoreHardwareInfoRet(session_id, n, db_ok) == IF n = 0 \/ ~db_ok THEN 0 ELSE n
StoreEventsRet(session_id, events, db_ok) == IF events = << >> \/ ~db_ok THEN 0 ELSE Len(events)

\* get_com_ports / get_cameras_windows / get_usb_devices_windows: the store
\* after a collaborator that found n devices
CollectOne(db, session_id, n, db_ok) ==
    IF session_id # NoSession /\ n > 0 THEN StoreHardwareInfo(db, session_id, n, db_ok) ELSE db

\* ------------------------------------------------ run_monitor's decisions
\* the threshold test with > in place of >=
ShouldEscalateStrict(count, cfg) == count > LlmThreshold(cfg) /\ LlmEnabled(cfg)

\* if event_count >= llm_check_threshold and llm_enabled:
ShouldEscalate(count, cfg) == count >= LlmThreshold(cfg) /\ LlmEnabled(cfg)

\* the guard of store_events without the test of the session id
ShouldStoreAnySession(sid, objects) == objects # << >>

\* if session_id and event_objects:
ShouldStore(sid, objects) == sid # NoSession /\ objects # << >>

\* the session close attempted without a session id
ShouldCloseAlways(sid) == TRUE

\* if session_id: end_scan_session(...)
ShouldClose(sid) == sid # NoSession

\* the abnormal-pattern test of run_monitor on the returned text
ResultSaysAbnormal(result) == Contains(<< MarkAbnormal >>, result)

\* the loop stopping one record short
BackFillButLast(objects, result, is_abnormal) ==
    [i \in 1..Len(objects) |->
        IF i = Len(objects) /\ i > 1 THEN objects[i]
        ELSE [objects[i] EXCEPT !.llm_analysis = result, !.abnormal = is_abnormal]]

\* the loop writing the flag but not the verdict text
BackFillFlagOnly(objects, result, is_abnormal) ==
    [i \in 1..Len(objects) |-> [objects[i] EXCEPT !.abnormal = is_abnormal]]

\* the loop over event_objects
BackFill(objects, result, is_abnormal) ==
    [i \in 1..Len(objects) |->
        [objects[i] EXCEPT !.llm_analysis = result, !.abnormal = is_abnormal]]

\* load_api_key(logger)
LoadApiKeyValue(key) == IF Falsy(key) THEN NoneValue ELSE key

\* ------------------------------------------------------------------- state
VARIABLES
    pc,                     \* where run_monitor (or the harness) stands
    is_windows,             \* monitor.is_windows
    env_key,                \* GROK_API_KEY in the environment
    config,                 \* config['llm']: has_llm, enabled, check_threshold
    session_id,
    api_key,
    hw_devices_found,
    event_count,
    event_log_strings,
    event_objects,
    llm_analysis_performed,
    llm_result,
    session_summary,
    exc,                    \* the exception that left run_monitor, "" if none
    acall,                  \* the last call of analyze_logs_with_llm: its inputs
    aret,                   \* and its outcome
    calls,                  \* how often each collaborator was called
    store_arg,              \* the batch handed to store_events
    db,                     \* the store
    config_in,              \* config['llm'] as the caller passed it
    scall,                  \* a call of analyze_event_logs by itself: its inputs
    sret,                   \* the outcome of the last analyze_event_logs
    dcall                   \* a call of a persistence operation by itself

vars == << pc, is_windows, env_key, config, session_id, api_key, hw_devices_found,
           event_count, event_log_strings, event_objects, llm_analysis_performed,
           llm_result, session_summary, exc, acall, aret, calls, store_arg, db,
           config_in, scall, sret, dcall >>

\* the locals of run_monitor
locals == << session_id, api_key, hw_devices_found, event_count, event_log_strings,
             event_objects, llm_analysis_performed, llm_result, session_summary >>

\* the inputs of the run, fixed once it has started
inputs == << is_windows, env_key, config_in >>

\* the record of the analysis call
analysis == << acall, aret >>

\* the record of the scan
scan == << scall, sret >>

NoCall == [made |-> FALSE, log_details |-> << >>, config |-> Config(FALSE, TRUE, 0, FALSE, FALSE, 0, << >>),
           api_key |-> NoneValue, net |-> Net("none", << >>)]
NoOutcome == Outcome(FALSE, "", << >>, 0)
NoCalls == [start |-> 0, analysis |-> 0, post |-> 0, store_events |-> 0, end |-> 0]
EmptyDb == Db("none", << 0, 0, 0 >>, SummaryBase(0, 0), 0, << >>)
NoScanCall == [made |-> FALSE, evt_conf |-> EvtConf({}, {}, 0),
               env |-> ScanEnv(FALSE, FALSE, << >>, 1, 0, FALSE, TRUE)]
NoScan == ScanResult(0, << >>, << >>, FALSE, 0, "", 0, 0)
NoDbCall == [op |-> "", session_id |-> NoSession, rows |-> 0, ok |-> FALSE,
             ret |-> 0, before |-> EmptyDb]

\* ------------------------------------------------- the inputs of run_monitor
Seqs(S, n) == UNION { [1..k -> S] : k \in 0..n }

\* the 'llm' keys run_monitor reads; the keys analyze_logs_with_llm reads are
\* drawn when it reads them
RunConfigs ==
    { Config(FALSE, TRUE, DefaultThreshold, FALSE, FALSE, DefaultMaxLogs, << >>) } \cup
    { Config(TRUE, e, t, FALSE, FALSE, DefaultMaxLogs, << >>) :
        e \in BOOLEAN, t \in 0..MaxThreshold }

\* the keys of the 'llm' section analyze_logs_with_llm reads
RunKeywordLists == { << >>, << <<"a">> >>, << <<"A">> >> }
LlmSettings(cfg) ==
    IF ~cfg.has_llm THEN { cfg }
    ELSE { [cfg EXCEPT !.api_url = u, !.model = TRUE, !.max_logs = n,
                          !.abnormal_keywords = k] :
            u \in BOOLEAN, n \in {0, DefaultMaxLogs}, k \in RunKeywordLists }

\* what the network answers
Texts == Seqs(RespAlphabet, MaxResp)
NetFailures ==
    { Net(k, << >>) : k \in {"timeout", "connection", "redirects", "http_error",
        "not_json_requests", "not_json_stdlib", "json_nondict", "choices_missing",
        "choices_empty", "choices_malformed", "choice_nondict", "message_missing",
        "message_malformed", "content_missing", "content_nonstring"} }
NetAnswers == { Net("ok", t) : t \in Texts }
\* no request was sent
NoNet == Net("none", << >>)
\* the answers to choose from: none when the call sends no request
AnswersTo(log_details, cfg, key, nets) ==
    IF AnalyzeLogsWithLlm(log_details, cfg, key, NoNet).posts = 0 THEN { NoNet } ELSE nets
\* the failures a run of run_monitor meets
RunNetFailures ==
    { Net(k, << >>) : k \in {"timeout", "http_error", "not_json_requests", "choices_missing"} }

\* the event log of a run: a record matched by its source, a record matched
\* by its ID (flags in the upper bits) whose message cannot be formatted, and
\* a record that matches nothing
RunEvents ==
    { Event("DriverX", 1, 1, "ok"), Event("Other", EventIdModulus + 7, 2, "msg_fail"),
      Event("Other", 2, 3, "ok") }
RunEvtConfs ==
    { EvtConf({"DriverX"}, {7}, DefaultMaxEvents), EvtConf({}, {}, DefaultMaxEvents) }
\* the logs of a run: every short log, and a burst of DefaultThreshold matches
RunLogs ==
    Seqs(RunEvents, MaxLog) \cup { [i \in 1..DefaultThreshold |-> Event("DriverX", 1, 1, "ok")] }

\* ------------------------------------------------------------- run_monitor
Init ==
    /\ pc = "start"
    /\ is_windows \in BOOLEAN
    /\ env_key \in {NoneValue, "", "key"}
    /\ config \in RunConfigs
    /\ session_id = NoSession
    /\ api_key = NoneValue
    /\ hw_devices_found = 0
    /\ event_count = 0
    /\ event_log_strings = << >>
    /\ event_objects = << >>
    /\ llm_analysis_performed = FALSE
    /\ llm_result = S_NotPerformed
    /\ session_summary = SummaryBase(0, 0)
    /\ exc = ""
    /\ acall = NoCall
    /\ aret = NoOutcome
    /\ calls = NoCalls
    /\ store_arg = << >>
    /\ db = EmptyDb
    /\ config_in = config
    /\ scall = NoScanCall
    /\ sret = NoScan
    /\ dcall = NoDbCall

\* run_monitor(config=None) and the configuration file does not load
ConfigMissing ==
    /\ pc = "start"
    /\ pc' = "exit"
    /\ UNCHANGED << inputs, config, locals, exc, analysis, scan, dcall, calls, store_arg, db >>

\* init_database; session_id = start_scan_session()
StartSession ==
    /\ pc = "start"
    /\ \E db_ok \in BOOLEAN :
        /\ db' = StartScanSession(db, db_ok)
        /\ session_id' = StartScanSessionRet(db_ok)
    /\ calls' = [calls EXCEPT !.start = @ + 1]
    /\ pc' = "load_key"
    /\ UNCHANGED << inputs, config, api_key, hw_devices_found, event_count,
                    event_log_strings, event_objects, llm_analysis_performed,
                    llm_result, session_summary, exc, analysis, scan, dcall, store_arg >>

\* api_key = load_api_key(logger); a missing key disables the analysis
LoadKey ==
    /\ pc = "load_key"
    /\ api_key' = LoadApiKeyValue(env_key)
    /\ IF api_key' = NoneValue /\ LlmEnabled(config)
          THEN IF config.has_llm
                  THEN /\ config' = [config EXCEPT !.enabled = FALSE]
                       /\ pc' = "hardware"
                       /\ exc' = exc
                  \* config['llm']['enabled'] = False without an 'llm' section
                  ELSE /\ config' = config
                       /\ pc' = "crashed"
                       /\ exc' = "KeyError"
          ELSE /\ config' = config
               /\ pc' = "hardware"
               /\ exc' = exc
    /\ UNCHANGED << inputs, session_id, hw_devices_found, event_count,
                    event_log_strings, event_objects, llm_analysis_performed,
                    llm_result, session_summary, analysis, scan, dcall, calls, store_arg, db >>

\* step 1: the three hardware collaborators
CollectHardware ==
    /\ pc = "hardware"
    /\ \E com \in 0..MaxDevices, cam \in 0..MaxDevices, usb \in 0..MaxDevices,
          db_ok \in BOOLEAN :
        LET cam_n == IF is_windows THEN cam ELSE 0
            usb_n == IF is_windows THEN usb ELSE 0
            db1 == CollectOne(db, session_id, com, db_ok)
            db2 == CollectOne(db1, session_id, cam_n, db_ok)
        IN  /\ hw_devices_found' = com + cam_n + usb_n
            /\ db' = CollectOne(db2, session_id, usb_n, db_ok)
    /\ pc' = "scan"
    /\ UNCHANGED << inputs, config, session_id, api_key, event_count,
                    event_log_strings, event_objects, llm_analysis_performed,
                    llm_result, session_summary, exc, analysis, scan, dcall, calls, store_arg >>

\* step 2: analyze_event_logs, and the locals step 3 starts from
ScanEvents ==
    /\ pc = "scan"
    /\ \E evt_conf \in RunEvtConfs, log \in RunLogs,
          open_ok \in BOOLEAN, fault_at \in {0, 2}, close_ok \in BOOLEAN :
        LET r == AnalyzeEventLogs(evt_conf,
                    ScanEnv(is_windows, open_ok, log, 2, fault_at, FALSE, close_ok))
        IN  /\ event_count' = r.count
            /\ event_log_strings' = r.details
            /\ event_objects' = r.objects
            /\ session_summary' = SummaryBase(r.count, hw_devices_found)
            /\ sret' = r
    /\ llm_analysis_performed' = FALSE
    /\ llm_result' = S_NotPerformed
    /\ pc' = "decide"
    /\ UNCHANGED << inputs, config, session_id, api_key, hw_devices_found, exc,
                    analysis, scall, dcall, calls, store_arg, db >>

\* step 3: the threshold decision
Decide ==
    /\ pc = "decide"
    /\ IF ShouldEscalate(event_count, config)
          THEN IF ~Falsy(api_key)
                  THEN /\ pc' = "escalate"
                       /\ session_summary' = session_summary
                  ELSE /\ pc' = "close"
                       /\ session_summary' = AddNote(session_summary, SumNoKey)
          ELSE /\ pc' = "store"
               /\ session_summary' =
                    AddNote(session_summary,
                            IF ~LlmEnabled(config) THEN SumDisabled ELSE SumBelowThreshold)
    /\ UNCHANGED << inputs, config, session_id, api_key, hw_devices_found, event_count,
                    event_log_strings, event_objects, llm_analysis_performed,
                    llm_result, exc, analysis, scan, dcall, calls, store_arg, db >>

\* llm_result = analyze_logs_with_llm(event_log_strings, config, api_key)
Escalate ==
    /\ pc = "escalate"
    /\ \E cfg \in LlmSettings(config) :
       \E net \in AnswersTo(event_log_strings, cfg, api_key, RunNetFailures \cup NetAnswers) :
        LET out == AnalyzeLogsWithLlm(event_log_strings, cfg, api_key, net)
        IN  /\ config' = cfg
            /\ acall' = [made |-> TRUE, log_details |-> event_log_strings,
                         config |-> cfg, api_key |-> api_key, net |-> net]
            /\ aret' = out
            /\ calls' = [calls EXCEPT !.analysis = @ + 1, !.post = @ + out.posts]
            /\ IF out.raised
                  THEN /\ pc' = "crashed"
                       /\ exc' = out.exc
                       /\ UNCHANGED << llm_result, llm_analysis_performed >>
                  ELSE /\ pc' = "backfill"
                       /\ exc' = exc
                       /\ llm_result' = out.result
                       /\ llm_analysis_performed' = TRUE
    /\ UNCHANGED << inputs, session_id, api_key, hw_devices_found, event_count,
                    event_log_strings, event_objects, session_summary, store_arg, db,
                    scan, dcall >>

\* the abnormal-pattern test and the back-fill of every record
BackFillAll ==
    /\ pc = "backfill"
    /\ LET is_abnormal == ResultSaysAbnormal(llm_result)
       IN  /\ session_summary' =
                IF is_abnormal THEN AddNote(session_summary, SumAbnormal)
                ELSE session_summary
           /\ event_objects' = BackFill(event_objects, llm_result, is_abnormal)
    /\ pc' = "store"
    /\ UNCHANGED << inputs, config, session_id, api_key, hw_devices_found, event_count,
                    event_log_strings, llm_analysis_performed, llm_result, exc,
                    analysis, scan, dcall, calls, store_arg, db >>

\* if session_id and event_objects: store_events(session_id, event_objects)
StoreBatch ==
    /\ pc = "store"
    /\ IF ShouldStore(session_id, event_objects)
          THEN \E db_ok \in BOOLEAN :
                /\ db' = StoreEvents(db, session_id, event_objects, db_ok)
                /\ calls' = [calls EXCEPT !.store_events = @ + 1]
                /\ store_arg' = event_objects
          ELSE UNCHANGED << db, calls, store_arg >>
    /\ pc' = "close"
    /\ UNCHANGED << inputs, config, locals, exc, analysis, scan, dcall >>

\* if session_id: end_scan_session(...); return the result summary
CloseSession ==
    /\ pc = "close"
    /\ IF ShouldClose(session_id)
          THEN \E db_ok \in BOOLEAN :
                /\ db' = EndScanSession(db, session_id,
                            << event_count, hw_devices_found,
                               IF llm_analysis_performed THEN 1 ELSE 0 >>,
                            session_summary, db_ok)
                /\ calls' = [calls EXCEPT !.end = @ + 1]
          ELSE UNCHANGED << db, calls >>
    /\ pc' = "done"
    /\ UNCHANGED << inputs, config, locals, exc, analysis, scan, dcall, store_arg >>

Next ==
    \/ ConfigMissing
    \/ StartSession
    \/ LoadKey
    \/ CollectHardware
    \/ ScanEvents
    \/ Decide
    \/ Escalate
    \/ BackFillAll
    \/ StoreBatch
    \/ CloseSession

Spec == Init /\ [][Next]_vars

\* ------------------------------------------- analyze_logs_with_llm by itself
\* the detail lines handed to it: two well-formed lines, a line without
\* source and ID fields, a line without a time field, a line whose time field
\* is no timestamp, and an element that is no string
AnyLines ==
    { Line("ok", 1, "SrcA", 1, "m"), Line("ok", 2, "SrcB", 2, "m"),
      Line("ok", 3, "", -1, "m"), Line("notime", 0, "SrcA", 1, "m"),
      Line("badtime", 0, "SrcA", 1, "m"), Line("nonstr", 0, "", -1, "") }
\* detail lines as the scan hands them over, newest first: n lines of one
\* source and ID, then m lines of another
GroupedLines(n, m) ==
    [i \in 1..(n + m) |->
        IF i <= n THEN Line("ok", n + m + 1 - i, "SrcA", 1, "m")
        ELSE Line("ok", n + m + 1 - i, "SrcB", 2, "m")]
AnyGroupedLines == { GroupedLines(n, m) : n \in 4..MaxGroup, m \in {0, 2} }
AnyKeywordLists == RunKeywordLists \cup { << <<"z">>, <<"a", "z">> >> }
AnyConfigs ==
    { Config(FALSE, TRUE, DefaultThreshold, FALSE, FALSE, DefaultMaxLogs, << >>) } \cup
    { Config(TRUE, TRUE, DefaultThreshold, u, m, n, k) :
        u \in BOOLEAN, m \in BOOLEAN, n \in {-1, 0, 1, DefaultMaxLogs},
        k \in AnyKeywordLists }

InitAnalyze ==
    /\ pc = "call"
    /\ is_windows = TRUE
    /\ env_key = NoneValue
    /\ config = Config(FALSE, TRUE, DefaultThreshold, FALSE, FALSE, DefaultMaxLogs, << >>)
    /\ session_id = NoSession
    /\ api_key = NoneValue
    /\ hw_devices_found = 0
    /\ event_count = 0
    /\ event_log_strings = << >>
    /\ event_objects = << >>
    /\ llm_analysis_performed = FALSE
    /\ llm_result = S_NotPerformed
    /\ session_summary = SummaryBase(0, 0)
    /\ exc = ""
    /\ acall = NoCall
    /\ aret = NoOutcome
    /\ calls = NoCalls
    /\ store_arg = << >>
    /\ db = EmptyDb
    /\ config_in = config
    /\ scall = NoScanCall
    /\ sret = NoScan
    /\ dcall = NoDbCall

\* one call of analyze_logs_with_llm on any input
AnalyzeCall ==
    /\ pc = "call"
    /\ \E log_details \in Seqs(AnyLines, MaxLines) \cup AnyGroupedLines, cfg \in AnyConfigs,
          key \in {NoneValue, "", "key"} :
       \E net \in AnswersTo(log_details, cfg, key, NetFailures \cup NetAnswers) :
        LET out == AnalyzeLogsWithLlm(log_details, cfg, key, net)
        IN  /\ acall' = [made |-> TRUE, log_details |-> log_details, config |-> cfg,
                         api_key |-> key, net |-> net]
            /\ aret' = out
            /\ calls' = [calls EXCEPT !.analysis = @ + 1, !.post = @ + out.posts]
            /\ pc' = IF out.raised THEN "crashed" ELSE "returned"
            /\ exc' = out.exc
    /\ UNCHANGED << inputs, config, locals, store_arg, db, scan, dcall >>

NextAnalyze == AnalyzeCall

SpecAnalyze == InitAnalyze /\ [][NextAnalyze]_vars

\* ----------------------------------------------- analyze_event_logs by itself
\* the records of the log: a record matched by its source, a record matched
\* by its ID (flags in the upper bits) whose message cannot be formatted, a
\* record that matches nothing, and a matching record whose time cannot be
\* formatted
AnyEvents ==
    { Event("DriverX", 1, 1, "ok"), Event("Other", EventIdModulus + 7, 2, "msg_fail"),
      Event("Other", 2, 3, "ok"), Event("DriverX", 1, 4, "time_fail") }
AnyEvtConfs ==
    { EvtConf(srcs, ids, m) :
        srcs \in { {}, {"DriverX"} }, ids \in { {}, {7} },
        m \in (0..MaxRecords) \cup { DefaultMaxEvents } } \cup
    { EvtConf({"DriverX"}, {1, 7}, m) : m \in (0..MaxRecords) \cup { DefaultMaxEvents } }
\* the event-log side: no Windows, a log that does not open, and a log that
\* opens, read in batches, with or without a read that raises
AnyScanEnvs ==
    { ScanEnv(FALSE, TRUE, << >>, 1, 0, FALSE, TRUE),
      ScanEnv(TRUE, FALSE, << >>, 1, 0, FALSE, TRUE) } \cup
    { ScanEnv(TRUE, TRUE, log, b, f[1], f[2], c) :
        log \in Seqs(AnyEvents, MaxScanLog), b \in 1..MaxBatch,
        f \in { << 0, FALSE >> } \cup ((1..2) \X BOOLEAN), c \in BOOLEAN }

InitScan ==
    /\ pc = "scan_call"
    /\ is_windows = TRUE
    /\ env_key = NoneValue
    /\ config = Config(FALSE, TRUE, DefaultThreshold, FALSE, FALSE, DefaultMaxLogs, << >>)
    /\ session_id = NoSession
    /\ api_key = NoneValue
    /\ hw_devices_found = 0
    /\ event_count = 0
    /\ event_log_strings = << >>
    /\ event_objects = << >>
    /\ llm_analysis_performed = FALSE
    /\ llm_result = S_NotPerformed
    /\ session_summary = SummaryBase(0, 0)
    /\ exc = ""
    /\ acall = NoCall
    /\ aret = NoOutcome
    /\ calls = NoCalls
    /\ store_arg = << >>
    /\ db = EmptyDb
    /\ config_in = config
    /\ scall = NoScanCall
    /\ sret = NoScan
    /\ dcall = NoDbCall

\* one call of analyze_event_logs on any configuration and any log
ScanCall ==
    /\ pc = "scan_call"
    /\ \E evt_conf \in AnyEvtConfs, env \in AnyScanEnvs :
        /\ scall' = [made |-> TRUE, evt_conf |-> evt_conf, env |-> env]
        /\ sret' = AnalyzeEventLogs(evt_conf, env)
    /\ pc' = "scan_returned"
    /\ UNCHANGED << inputs, config, locals, exc, analysis, dcall, calls, store_arg, db >>

NextScan == ScanCall

SpecScan == InitScan /\ [][NextScan]_vars

\* ------------------------------------- the persistence operations by themselves
\* the batches handed to store_events
AnyBatches == { << >>, << ObjectOf(Event("DriverX", 1, 1, "ok"), FormattedMsg) >> }

InitDb ==
    /\ pc = "db"
    /\ is_windows = TRUE
    /\ env_key = NoneValue
    /\ config = Config(FALSE, TRUE, DefaultThreshold, FALSE, FALSE, DefaultMaxLogs, << >>)
    /\ session_id = NoSession
    /\ api_key = NoneValue
    /\ hw_devices_found = 0
    /\ event_count = 0
    /\ event_log_strings = << >>
    /\ event_objects = << >>
    /\ llm_analysis_performed = FALSE
    /\ llm_result = S_NotPerformed
    /\ session_summary = SummaryBase(0, 0)
    /\ exc = ""
    /\ acall = NoCall
    /\ aret = NoOutcome
    /\ calls = NoCalls
    /\ store_arg = << >>
    /\ db = EmptyDb
    /\ config_in = config
    /\ scall = NoScanCall
    /\ sret = NoScan
    /\ dcall = NoDbCall

\* what a call of a persistence operation leaves unchanged
DbFrame ==
    UNCHANGED << pc, inputs, config, locals, exc, analysis, scan, calls, store_arg >>

\* start_scan_session()
DbStart ==
    /\ pc = "db"
    /\ db.session = "none"
    /\ \E db_ok \in BOOLEAN :
        /\ db' = StartScanSession(db, db_ok)
        /\ dcall' = [op |-> "start_scan_session", session_id |-> NoSession, rows |-> 0,
                     ok |-> db_ok, ret |-> StartScanSessionRet(db_ok), before |-> db]
    /\ DbFrame

\* end_scan_session(sid, ...)
DbEnd ==
    /\ pc = "db"
    /\ \E sid \in {NoSession, 1}, db_ok \in BOOLEAN :
        /\ sid # NoSession => db.session # "none"
        /\ db' = EndScanSession(db, sid, << Len(db.events), db.hw_rows, 0 >>,
                                SummaryBase(Len(db.events), db.hw_rows), db_ok)
        /\ dcall' = [op |-> "end_scan_session", session_id |-> sid, rows |-> 0,
                     ok |-> db_ok, ret |-> EndScanSessionRet(sid, db_ok), before |-> db]
    /\ DbFrame

\* store_hardware_info(sid, hw_type, devices)
DbStoreHardware ==
    /\ pc = "db"
    /\ \E sid \in {NoSession, 1}, n \in 0..MaxDevices, db_ok \in BOOLEAN :
        /\ sid # NoSession => db.session # "none"
        /\ db.hw_rows + n <= MaxRows
        /\ db' = StoreHardwareInfo(db, sid, n, db_ok)
        /\ dcall' = [op |-> "store_hardware_info", session_id |-> sid, rows |-> n,
                     ok |-> db_ok, ret |-> StoreHardwareInfoRet(sid, n, db_ok), before |-> db]
    /\ DbFrame

\* store_events(sid, events)
DbStoreEvents ==
    /\ pc = "db"
    /\ \E sid \in {NoSession, 1}, events \in AnyBatches, db_ok \in BOOLEAN :
        /\ sid # NoSession => db.session # "none"
        /\ Len(db.events) + Len(events) <= MaxRows
        /\ db' = StoreEvents(db, sid, events, db_ok)
        /\ dcall' = [op |-> "store_events", session_id |-> sid, rows |-> Len(events),
                     ok |-> db_ok, ret |-> StoreEventsRet(sid, events, db_ok), before |-> db]
    /\ DbFrame

NextDb ==
    \/ DbStart
    \/ DbEnd
    \/ DbStoreHardware
    \/ DbStoreEvents

SpecDb == InitDb /\ [][NextDb]_vars

\* ================================================================== claims
\* the escalation condition on the inputs of the run: the match count has
\* reached the threshold, the feature is enabled, a credential is available
EscalationDue ==
    event_count >= LlmThreshold(config) /\ LlmEnabled(config) /\ ~Falsy(env_key)

\* run_monitor has passed the threshold decision
PastDecision ==
    pc \in {"backfill", "store", "close", "done"} \/ (pc = "crashed" /\ exc = "IndexError")

\* the records have been back-filled, or the run never escalated
PastBackFill == pc \in {"store", "close", "done"}

\* C1: analyze_logs_with_llm is invoked if and only if matchCount >= threshold
\* and the analysis feature is enabled and a credential is available; at
\* matchCount = threshold it is invoked, at threshold - 1 it is not.
C1_EscalatesIffDue ==
    /\ calls.analysis > 0 => EscalationDue
    /\ PastDecision => (EscalationDue <=> calls.analysis > 0)

C1_Witness ==
    /\ pc = "done"
    /\ event_count > 0
    /\ event_count = LlmThreshold(config)
    /\ calls.analysis = 1

\* C2 (as claimed): a record's abnormal flag, in the batch and in what is
\* handed to store_events, is true only if analyze_logs_with_llm was invoked
\* and its keyword classification of the model response was positive.
C2_AbnormalOnlyIfClassified ==
    \A batch \in {event_objects, store_arg} :
        \A i \in 1..Len(batch) :
            batch[i].abnormal =>
                /\ calls.analysis = 1
                /\ acall.net.kind = "ok"
                /\ IsAbnormal(acall.net.text, LlmKeywords(acall.config))

\* C3 (as claimed): every run that returns has handed the batch to
\* store_events exactly once.
C3_StoredExactlyOnce == pc = "done" => calls.store_events = 1

\* C3 (amended): store_events is called at most once per run, only with a
\* session id and the complete, non-empty batch; a run that returns has called
\* it exactly once if it has a session id and a non-empty batch, and not at
\* all otherwise, whether or not escalation ran.
C3_StoredOnceWhenSessionAndBatch ==
    /\ calls.store_events <= 1
    /\ calls.store_events = 1 =>
        /\ session_id # NoSession
        /\ event_objects # << >>
        /\ store_arg = event_objects
        /\ Len(store_arg) = event_count
    /\ pc = "done" =>
        (calls.store_events = 1 <=> (session_id # NoSession /\ event_objects # << >>))

C3_Witness ==
    /\ pc = "done"
    /\ calls.store_events = 1
    /\ ~llm_analysis_performed
    /\ Len(store_arg) = 2

\* C4 (as claimed): no exception unwinds past run_monitor.
C4_NothingUnwinds == pc # "crashed"

\* C5 (as claimed): analyze_logs_with_llm never raises.
C5_NeverRaises == ~aret.raised

\* C6: analyze_logs_with_llm is invoked at most once per run and the request is
\* sent at most once per run, whatever the outcome of the request.
C6_AtMostOnce == calls.analysis <= 1 /\ calls.post <= 1

C6_Witness ==
    /\ pc = "done"
    /\ calls.analysis = 1
    /\ calls.post = 1
    /\ acall.net.kind = "timeout"

\* the sentinel the claim gives each failure class of the model call
ClaimedSentinel(kind) ==
    CASE kind = "timeout" -> S_Timeout
      [] kind = "connection" -> S_ConnError
      [] kind = "redirects" -> S_RequestError("TooManyRedirects")
      [] kind = "http_error" -> S_RequestError("HTTPError")
      [] kind \in {"not_json_requests", "not_json_stdlib"} -> S_ParseError
      [] OTHER -> S_FormatError

\* C7 (as claimed): each failure class of the model call is mapped to its own
\* sentinel: timeout, connection error, request error with the class name,
\* response-format error for missing or malformed fields, parse error for a
\* body that is no JSON.
C7_FailureSentinels ==
    (acall.made /\ acall.net.kind \notin {"none", "ok", "json_nondict"}) =>
        (~aret.raised /\ aret.result = ClaimedSentinel(acall.net.kind))

\* C8: analyze_logs_with_llm sends a request only if the credential is
\* non-empty, the configuration gives an endpoint URL and a model identifier,
\* and the digest is not the "no data" sentinel; otherwise it returns the fixed
\* sentinel of the failed precondition and sends nothing.
C8_RequestOnlyWhenReady ==
    acall.made =>
        LET key_ok == ~Falsy(acall.api_key)
            conf_ok == LlmApiUrl(acall.config) /\ LlmModel(acall.config)
            no_data == PreprocessLogs(acall.log_details, LlmMaxLogs(acall.config)).kind = "nodata"
        IN  /\ aret.posts <= 1
            /\ aret.posts = 1 => (key_ok /\ conf_ok /\ ~no_data)
            /\ ~key_ok => (aret = Outcome(FALSE, "", S_NoKey, 0))
            /\ (key_ok /\ ~conf_ok) => (aret = Outcome(FALSE, "", S_ConfigError, 0))
            /\ (key_ok /\ conf_ok /\ no_data) => (aret = Outcome(FALSE, "", S_NoLogs, 0))

C8_Witness ==
    /\ acall.made
    /\ acall.api_key = "key"
    /\ LlmApiUrl(acall.config)
    /\ ~LlmModel(acall.config)
    /\ acall.log_details # << >>
    /\ aret.result = S_ConfigError
    /\ aret.posts = 0

\* a configured keyword occurs in the response, letter case ignored
KeywordOccurs(text, keywords) ==
    \E i \in 1..Len(keywords) : Contains(Lower(keywords[i]), Lower(text))

\* C9 (as claimed, its first half): after escalation, a response containing a
\* configured keyword in any letter case gives abnormal = true on every record
\* of the batch.
C9_KeywordInAnyCaseFlagsAll ==
    (PastBackFill /\ llm_analysis_performed /\ acall.net.kind = "ok"
        /\ KeywordOccurs(acall.net.text, LlmKeywords(acall.config))) =>
        \A i \in 1..Len(event_objects) : event_objects[i].abnormal

\* C10: once escalation has run, every record carries the text returned by
\* analyze_logs_with_llm and the same abnormal flag; when escalation does not
\* run, every record keeps an empty analysis text and abnormal = false.
C10_UniformBackFill ==
    /\ (PastBackFill /\ llm_analysis_performed) =>
        \A i \in 1..Len(event_objects) :
            /\ event_objects[i].llm_analysis = aret.result
            /\ event_objects[i].abnormal = event_objects[1].abnormal
    /\ ~llm_analysis_performed =>
        \A i \in 1..Len(event_objects) :
            /\ event_objects[i].llm_analysis = << >>
            /\ ~event_objects[i].abnormal

C10_Witness ==
    /\ pc = "done"
    /\ llm_analysis_performed
    /\ Len(event_objects) = 2
    /\ event_objects[1].source # event_objects[2].source
    /\ event_objects[2].abnormal
    /\ event_objects[2].llm_analysis = aret.result

\* C11 (as claimed): every run that returns has attempted the session close,
\* also a run whose session id is null.
C11_CloseAlwaysAttempted == pc = "done" => calls.end = 1

\* C11 (amended): end_scan_session is called at most once, only with a
\* non-null session id; a run that returns has called it exactly once if its
\* session id is non-null and not at all if it is null, and a run without a
\* session id writes nothing to the store.
C11_CloseAttemptedIffSession ==
    /\ calls.end <= 1
    /\ calls.end = 1 => session_id # NoSession
    /\ pc = "done" => (calls.end = 1 <=> session_id # NoSession)
    /\ session_id = NoSession => db = EmptyDb

\* a run without a session id has found events and devices and returned
C11_Witness ==
    /\ pc = "done"
    /\ session_id = NoSession
    /\ calls.start = 1
    /\ calls.end = 0
    /\ event_count > 0
    /\ hw_devices_found > 0

\* the reason codes that name a true cause of the skipped escalation, by the
\* configuration as passed in, the match count and the credential
SkipCauses ==
    (IF ~LlmEnabled(config_in) THEN { SumDisabled } ELSE {}) \cup
    (IF event_count < LlmThreshold(config_in) THEN { SumBelowThreshold } ELSE {}) \cup
    (IF LlmEnabled(config_in) /\ event_count >= LlmThreshold(config_in) /\ Falsy(env_key)
        THEN { SumNoKey } ELSE {})

\* C12 (as claimed): when escalation was skipped, the session summary carries
\* exactly one reason code and it names the actual cause: disabled,
\* below-threshold, or missing-credential.
C12_SkipReasonIsCause ==
    (pc \in {"store", "close", "done"} /\ calls.analysis = 0) =>
        \E c \in SkipCauses : session_summary.notes = << c >>

\* what analyze_event_logs hands back to its caller
ScanReturn(r) == << r.count, r.details, r.objects >>

\* a scan with the same limits and a criterion, of a log that opens and is
\* empty: it succeeds and finds zero matches
EmptyLogScan ==
    AnalyzeEventLogs(EvtConf({"DriverX"}, {}, scall.evt_conf.max_events),
                     ScanEnv(TRUE, TRUE, << >>, 1, 0, FALSE, TRUE))

\* the scan was called on Windows with both criteria lists empty
EmptyCriteriaCall ==
    /\ scall.made
    /\ scall.env.windows
    /\ scall.evt_conf.target_sources = {}
    /\ scall.evt_conf.target_event_ids = {}

\* C13 (as claimed): with both criteria lists empty, analyze_event_logs hands
\* its caller an outcome that differs from that of a successful scan with
\* zero matches; it never returns a plain zero count.
C13_EmptyCriteriaRefused ==
    EmptyCriteriaCall =>
        (EmptyLogScan.exit = "scanned" /\ ScanReturn(sret) # ScanReturn(EmptyLogScan))

\* C14: on every return of analyze_event_logs the count equals the number
\* of structured records and the number of detail lines.
C14_CountMatchesCollections ==
    scall.made => (sret.count = Len(sret.objects) /\ sret.count = Len(sret.details))

\* a scan that stopped at max_events_to_read and returned two matches, one
\* of them with the format-error placeholder
C14_Witness ==
    /\ scall.made
    /\ sret.exit = "scanned"
    /\ sret.total_read = scall.evt_conf.max_events
    /\ Len(scall.env.log) > sret.total_read
    /\ sret.count = 2
    /\ \E i \in 1..2 : sret.objects[i].message = FormatErrorMsg

\* the smaller of two numbers
Min(a, b) == IF a < b THEN a ELSE b

\* the records the scan may examine: the first max_events_to_read of the log
ScanWindow ==
    SubSeq(scall.env.log, 1,
           Min(Len(scall.env.log),
               IF scall.evt_conf.max_events > 0 THEN scall.evt_conf.max_events ELSE 0))

\* the matching records among them, newest first
WindowMatches == SelectSeq(ScanWindow, LAMBDA e : MatchFound(e, scall.evt_conf))

\* the scan was called with a criterion on a log that opens and whose reads
\* all succeed
UndisturbedScanCall ==
    /\ scall.made
    /\ scall.env.windows
    /\ scall.env.open_ok
    /\ scall.env.fault_at = 0
    /\ ~(scall.evt_conf.target_sources = {} /\ scall.evt_conf.target_event_ids = {})

\* C15 (as claimed): a matching record whose formatting fails, in any step
\* of building its detail line, is still counted and returned with the
\* format-error placeholder as its message, and every match before and after
\* it is returned too.
C15_BadRecordKeptScanGoesOn ==
    UndisturbedScanCall =>
        /\ sret.count = Len(WindowMatches)
        /\ Len(sret.objects) = Len(WindowMatches)
        /\ \A i \in 1..Len(sret.objects) :
            /\ sret.objects[i].timestamp = WindowMatches[i].time
            /\ sret.objects[i].message =
                    IF WindowMatches[i].fmt = "ok" THEN FormattedMsg ELSE FormatErrorMsg

\* the records examined when the scan returns after its loop: the limit, the
\* length of the log, or the records of the batches read before a
\* no-more-items error
ExaminedAtReturn ==
    LET window == Len(ScanWindow)
        before == (scall.env.fault_at - 1) * scall.env.batch
    IN  IF scall.env.fault_at > 0 THEN Min(window, before) ELSE window

\* C20: analyze_event_logs examines at most max_events_to_read records in
\* all, makes at most that many reads (so the loop ends), stops at the limit
\* or where the log reports no more records, and returns what it would
\* return if the log held no record beyond the limit.
C20_ExaminesAtMostMaxRecords ==
    scall.made =>
        /\ sret.total_read <= Len(ScanWindow)
        /\ sret.reads <= Len(ScanWindow) + 1
        /\ sret.reads <= IF scall.evt_conf.max_events > 0 THEN scall.evt_conf.max_events ELSE 0
        /\ sret.count <= sret.total_read
        /\ sret.exit = "scanned" => sret.total_read = ExaminedAtReturn
        /\ ScanReturn(sret) =
                ScanReturn(AnalyzeEventLogs(scall.evt_conf, [scall.env EXCEPT !.log = ScanWindow]))

\* a scan of four matching records in batches of two that stopped at three:
\* the limit fell inside the second batch
C20_Witness ==
    /\ scall.made
    /\ sret.exit = "scanned"
    /\ scall.evt_conf.max_events = 3
    /\ scall.env.batch = 2
    /\ Len(scall.env.log) = 4
    /\ MatchFound(scall.env.log[4], scall.evt_conf)
    /\ sret.reads = 2
    /\ sret.total_read = 3
    /\ sret.count = 3

\* C16 (as claimed): until end_scan_session has committed, the store holds
\* no hardware row and no event row of the run, so a run killed at any point
\* before the session close leaves only its open session record.
C16_NothingDurableBeforeClose ==
    db.session # "closed" => (db.hw_rows = 0 /\ db.events = << >>)

\* C17 (as claimed): end_scan_session, store_hardware_info and store_events
\* called with a null session id are no-ops: they return 0 (false) and leave
\* the store as it was.
C17_NullSessionIsNoOp ==
    (dcall.op \in {"end_scan_session", "store_hardware_info", "store_events"}
        /\ dcall.session_id = NoSession) =>
        (dcall.ret = 0 /\ db = dcall.before)

\* the scan of this run failed: the log did not open, or a read raised
ScanFailed == sret.exit = "access_error"

\* the counters the closed session record must hold after a failed scan
ClosedWithoutAnalysis ==
    db.session = "closed" =>
        (db.counters = << 0, hw_devices_found, 0 >> /\ db.summary.events = 0)

RECURSIVE SumSizes(_)
SumSizes(groups) ==
    IF groups = << >> THEN 0 ELSE Head(groups).size + SumSizes(Tail(groups))

\* the digest analyze_logs_with_llm computes in its last call
LastDigest == PreprocessLogs(acall.log_details, LlmMaxLogs(acall.config))

\* the last call reached preprocess_logs with lines and a positive maxLines
DigestComputed ==
    /\ acall.made
    /\ ~Falsy(acall.api_key)
    /\ LlmApiUrl(acall.config)
    /\ LlmModel(acall.config)
    /\ acall.log_details # << >>
    /\ LlmMaxLogs(acall.config) >= 1

\* C19 (as claimed): the digest keeps every one of the first maxLines lines,
\* a line that does not parse included: its header total is
\* min(len(detailLines), maxLines) and equals the sum of the group sizes.
C19_DigestRetainsEveryLine ==
    DigestComputed =>
        /\ LastDigest.kind = "digest"
        /\ LastDigest.total = Min(Len(acall.log_details), LlmMaxLogs(acall.config))
        /\ LastDigest.total = SumSizes(LastDigest.groups)

\* the positions of the scan window whose record the criteria select: the
\* source is in the source set, or the raw ID modulo 2^16 is in the ID set
SelectedPositions ==
    { i \in 1..Len(ScanWindow) :
        \/ ScanWindow[i].source \in scall.evt_conf.target_sources
        \/ (ScanWindow[i].raw_id % (2^16)) \in scall.evt_conf.target_event_ids }

\* C21: a scan that examined its whole window counts exactly the records
\* whose source is in the source set or whose raw ID modulo 2^16 is in the ID
\* set, each once, and returns one structured record for each, carrying the
\* masked ID.
C21_MatchIsSourceOrMaskedId ==
    (UndisturbedScanCall /\ sret.exit = "scanned") =>
        /\ sret.count = Cardinality(SelectedPositions)
        /\ \A j \in 1..Len(sret.objects) :
            /\ sret.objects[j].event_id < 2^16
            /\ \/ sret.objects[j].source \in scall.evt_conf.target_sources
               \/ sret.objects[j].event_id \in scall.evt_conf.target_event_ids

\* a scan of three records with both criteria set: one matches by source and
\* by ID, one matches by its ID only, flags in its upper bits, one matches
\* nothing; two are counted
C21_Witness ==
    /\ UndisturbedScanCall
    /\ sret.exit = "scanned"
    /\ scall.evt_conf.target_sources = {"DriverX"}
    /\ scall.evt_conf.target_event_ids = {1, 7}
    /\ Len(ScanWindow) = 3
    /\ ScanWindow[1] = Event("DriverX", 1, 1, "ok")
    /\ ScanWindow[2] = Event("Other", EventIdModulus + 7, 2, "msg_fail")
    /\ ScanWindow[3] = Event("Other", 2, 3, "ok")
    /\ sret.count = 2

\* C22: analyze_event_logs calls CloseEventLog exactly once when
\* OpenEventLog gave it a handle and never otherwise, whichever way the scan
\* ended, and it returns to its caller also when CloseEventLog fails.
C22_HandleReleasedOnce ==
    scall.made =>
        /\ sret.opened <=> (scall.env.windows /\ scall.env.open_ok /\
                            ~(scall.evt_conf.target_sources = {} /\
                              scall.evt_conf.target_event_ids = {}))
        /\ sret.closes = (IF sret.opened THEN 1 ELSE 0)
        /\ sret.exit \in {"no_windows", "no_criteria", "access_error", "unexpected", "scanned"}

\* a scan whose second read raised after a match was found, and whose
\* CloseEventLog failed too: the handle was released once and the scan
\* returned
C22_Witness ==
    /\ scall.made
    /\ sret.opened
    /\ sret.exit = "access_error"
    /\ sret.reads = 2
    /\ sret.total_read > 0
    /\ ~scall.env.close_ok
    /\ sret.closes = 1

\* the entries of the digest's input that belong to group g, oldest first
EntriesOf(g) ==
    SelectSeq(SortByTimestamp(ParseLines(PySlice(acall.log_details,
                                                 LlmMaxLogs(acall.config)))),
              LAMBDA e : << e.source, e.event_id >> = g.key)

\* C23: every group of the digest states its full size; a group of at most
\* 5 entries shows them all without a note, and a larger group shows 5, its
\* first 3 and its last 2 in ascending time order, with the truncation note.
C23_GroupShowsHeadAndTail ==
    (DigestComputed /\ LastDigest.kind = "digest") =>
        \A k \in 1..Len(LastDigest.groups) :
            LET g == LastDigest.groups[k]
                all == EntriesOf(g)
                n == Len(all)
            IN  /\ g.size = n
                /\ g.note <=> n > 5
                /\ \A i, j \in 1..Len(g.shown) :
                        i < j => g.shown[i].timestamp <= g.shown[j].timestamp
                /\ IF n <= 5 THEN g.shown = all
                   ELSE g.shown = << all[1], all[2], all[3], all[n - 1], all[n] >>

\* a digest of six lines of one source and two of another, handed over
\* newest first: the groups show five and two entries, and the call returned
C23_Witness ==
    /\ DigestComputed
    /\ ~aret.raised
    /\ LastDigest.kind = "digest"
    /\ LastDigest.total = 8
    /\ Len(LastDigest.groups) = 2
    /\ \E a, b \in 1..2 :
        /\ LastDigest.groups[a].size = 6
        /\ Len(LastDigest.groups[a].shown) = 5
        /\ LastDigest.groups[a].note
        /\ LastDigest.groups[b].size = 2
        /\ Len(LastDigest.groups[b].shown) = 2
        /\ ~LastDigest.groups[b].note

\* C24: store_events is not called before the back-fill has run and
\* end_scan_session not before the store step; after an escalation the batch
\* handed to store_events carries the verdict text and the abnormal flag on
\* every record; the counters written at close are the size of that batch
\* and 1 for llm_analysis_performed exactly when analyze_logs_with_llm was
\* invoked.
C24_BackFillThenStoreThenClose ==
    /\ pc \in {"start", "load_key", "hardware", "scan", "decide", "escalate", "backfill"} =>
            (calls.store_events = 0 /\ calls.end = 0)
    /\ pc = "store" => calls.end = 0
    /\ calls.end = 1 => (pc = "done" /\ (event_objects # << >> => calls.store_events = 1))
    /\ (calls.store_events = 1 /\ calls.analysis = 1) =>
            \A i \in 1..Len(store_arg) :
                /\ store_arg[i].llm_analysis = aret.result
                /\ store_arg[i].abnormal = ResultSaysAbnormal(aret.result)
    /\ db.session = "closed" =>
            /\ db.counters[1] = Len(store_arg)
            /\ db.counters[3] = (IF calls.analysis = 1 THEN 1 ELSE 0)

\* a run that escalated, back-filled two records as abnormal, stored them
\* and closed its session with events_found = 2, llm_analysis_performed = 1
C24_Witness ==
    /\ pc = "done"
    /\ calls.analysis = 1
    /\ calls.store_events = 1
    /\ calls.end = 1
    /\ Len(store_arg) = 2
    /\ store_arg[1].abnormal
    /\ store_arg[2].llm_analysis = aret.result
    /\ db.session = "closed"
    /\ db.counters[1] = 2
    /\ db.counters[3] = 1

====
